---- MODULE Spec2Model ----
(***************************************************************************)
(* GrPathRenderer (src/src/gpu/GrPathRenderer.h): the base class of the    *)
(* path renderers and the protocol it drives them through: canDrawPath,    *)
(* drawPath, stencilPath with its default onStencilPath, and the helpers   *)
(* IsStrokeHairlineOrEquivalent and GetPathDevBounds.                      *)
(*                                                                         *)
(* A path renderer (a subclass) is a record of what its virtual methods    *)
(* answer.  The stencil buffer is followed along one scanline of DevW      *)
(* pixels; a path is the rectangle of its bounds, so that the pixels it    *)
(* covers are the pixels of its transformed bounds.  Scalars are integers. *)
(***************************************************************************)
EXTENDS Integers, Sequences, FiniteSets

\* ------------------------------------------------------------------ bounds
DevW == 3          \* pixels of the scanline of the stencil buffer
MaxChain == 2      \* path renderers registered in a chain
MaxCoord == 2      \* largest coordinate of a path's bounds
MaxDev == 2        \* largest device width and height given to GetPathDevBounds

\* --------------------------------------------------------------- constants
StencilRef == 65535        \* 0xffff, the reference value of kIncrementStencil
Scalar1 == 16              \* SK_Scalar1 (1.0) in the model's fixed point

\* A pointer is the tuple of what it points to; nullptr is the empty tuple
NULL == << >>
Ptr(v) == << v >>
Deref(p) == p[1]
Pixels == 0 .. (DevW - 1)

\* enum StencilSupport, in the order of its declaration
kNoSupport_StencilSupport == "kNoSupport"
kStencilOnly_StencilSupport == "kStencilOnly"
kNoRestriction_StencilSupport == "kNoRestriction"
StencilSupport ==
    { kNoSupport_StencilSupport, kStencilOnly_StencilSupport,
      kNoRestriction_StencilSupport }

\* ------------------------------------------------------- consumed values
\* SkRect, sorted or not
Rect(l, t, r, b) == [l |-> l, t |-> t, r |-> r, b |-> b]

\* SkPath: its bounds, isInverseFillType() and isEmpty()
Path(bounds, inverse, empty) == [bounds |-> bounds, inverse |-> inverse, empty |-> empty]

\* SkMatrix: scale and translate, or perspective
Matrix(sx, sy, tx, ty, persp) == [sx |-> sx, sy |-> sy, tx |-> tx, ty |-> ty, persp |-> persp]

Min(a, b) == IF a < b THEN a ELSE b
Max(a, b) == IF a < b THEN b ELSE a
Abs(a) == IF a < 0 THEN -a ELSE a

\* SkMatrix::mapRect for a scale+translate matrix: maps the corners and sorts
mapRect(m, rc) ==
    LET x0 == m.sx * rc.l + m.tx
        x1 == m.sx * rc.r + m.tx
        y0 == m.sy * rc.t + m.ty
        y1 == m.sy * rc.b + m.ty
    IN Rect(Min(x0, x1), Min(y0, y1), Max(x0, x1), Max(y0, y1))

\* GrStyle: pathEffect() != nullptr, and its SkStrokeRec (style and width)
kHairline_Style == "kHairline"
kFill_Style == "kFill"
kStroke_Style == "kStroke"
kStrokeAndFill_Style == "kStrokeAndFill"
Style(pe, st, w) == [pathEffect |-> pe, strokeStyle |-> st, width |-> w]

\* GrStyle::SimpleFill()
SimpleFill == Style(FALSE, kFill_Style, -Scalar1)

\* GrStyle::isSimpleFill(): a fill with no path effect
isSimpleFill(style) == ~style.pathEffect /\ style.strokeStyle = kFill_Style

\* GrColor: opaque white and another color
GrColor_WHITE == "0xFFFFFFFF"
GrColor_BLACK == "0xFF000000"

\* GrUserStencilSettings: kUnused, or a rule that always passes and replaces
\* the stencil value by its reference value
kUnused == [unused |-> TRUE, ref |-> 0]
kIncrementStencil == [unused |-> FALSE, ref |-> StencilRef]
isUnused(uss) == uss.unused

\* GrResourceProvider (caps()->shaderCaps()), GrDrawContext
\* (isStencilBufferMultisampled()), GrPaint
ResourceProvider(caps) == [shaderCaps |-> caps]
DrawContext(msaa) == [isStencilBufferMultisampled |-> msaa]
GrPaint == [paint |-> "default"]

\* GrClip / GrFixedClip: the pixels of the scanline the clip lets through
Clips == { 0 .. (k - 1) : k \in 1 .. DevW }

\* The pixels of the scanline a path covers under a view matrix: those of its
\* transformed bounds, or for an inverse fill those outside them
Footprint(path, m) ==
    LET d == mapRect(m, path.bounds)
        inside == IF path.empty THEN {} ELSE { x \in Pixels : d.l <= x /\ x < d.r }
    IN IF path.inverse THEN Pixels \ inside ELSE inside

ZeroStencil == [x \in Pixels |-> 0]

\* ----------------------------------------------------------- path renderer
\* A subclass of GrPathRenderer, by what its virtual methods answer:
\*   aa, stencilUse   the fAntiAlias and fHasUserStencilSettings values its
\*                    onCanDrawPath accepts
\*   support          what its onGetStencilSupport returns
\*   overridesStencil whether it overrides onStencilPath
\*   completes        whether its onDrawPath completes the draws it accepted
PathRenderer(aa, su, support, ov, completes) ==
    [aa |-> aa, stencilUse |-> su, support |-> support,
     overridesStencil |-> ov, completes |-> completes]

\* struct CanDrawPathArgs
CanDrawPathArgs(caps, m, path, style, aa, hasUSS, msaa) ==
    [fShaderCaps |-> caps, fViewMatrix |-> m, fPath |-> path, fStyle |-> style,
     fAntiAlias |-> aa, fHasUserStencilSettings |-> hasUSS,
     fIsStencilBufferMSAA |-> msaa]

\* CanDrawPathArgs::validate
CanDrawPathArgs_validate(a) ==
    /\ a.fShaderCaps # NULL
    /\ a.fViewMatrix # NULL
    /\ a.fPath # NULL
    /\ a.fStyle # NULL
    /\ ~Deref(a.fPath).empty

\* struct DrawPathArgs
DrawPathArgs(rp, paint, uss, dc, clip, color, m, path, style, aa, gamma) ==
    [fResourceProvider |-> rp, fPaint |-> paint, fUserStencilSettings |-> uss,
     fDrawContext |-> dc, fClip |-> clip, fColor |-> color, fViewMatrix |-> m,
     fPath |-> path, fStyle |-> style, fAntiAlias |-> aa, fGammaCorrect |-> gamma]

\* DrawPathArgs::validate
DrawPathArgs_validate(a) ==
    /\ a.fResourceProvider # NULL
    /\ a.fPaint # NULL
    /\ a.fUserStencilSettings # NULL
    /\ a.fDrawContext # NULL
    /\ a.fClip # NULL
    /\ a.fViewMatrix # NULL
    /\ a.fPath # NULL
    /\ a.fStyle # NULL
    /\ ~Deref(a.fPath).empty

\* struct StencilPathArgs
StencilPathArgs(rp, dc, clip, m, path, aa) ==
    [fResourceProvider |-> rp, fDrawContext |-> dc, fClip |-> clip,
     fViewMatrix |-> m, fPath |-> path, fIsAA |-> aa]

\* StencilPathArgs::validate
StencilPathArgs_validate(a) ==
    /\ a.fResourceProvider # NULL
    /\ a.fDrawContext # NULL
    /\ a.fViewMatrix # NULL
    /\ a.fPath # NULL
    /\ ~Deref(a.fPath).empty

\* What a checked call answers: the assertion that halted it ("" when none
\* did) and the value it returned
Answer(halt, value) == [halt |-> halt, value |-> value]

\* virtual onGetStencilSupport
onGetStencilSupport(r, path) == r.support

\* getStencilSupport: in a debug build the path must not be inverse filled
getStencilSupport(r, dbg, path) ==
    IF dbg /\ path.inverse
    THEN Answer("getStencilSupport: !path.isInverseFillType()", "none")
    ELSE Answer("", onGetStencilSupport(r, path))

\* virtual onCanDrawPath of the subclass: a pure predicate over the request
onCanDrawPath(r, a) ==
    /\ a.fAntiAlias \in r.aa
    /\ a.fHasUserStencilSettings \in r.stencilUse

\* canDrawPath answering without asking the subclass
canDrawPath_withoutSubclass(r, dbg, a) ==
    IF dbg /\ ~CanDrawPathArgs_validate(a)
    THEN Answer("CanDrawPathArgs::validate", FALSE)
    ELSE Answer("", TRUE)

\* canDrawPath: validates in a debug build, then asks the subclass
canDrawPath(r, dbg, a) ==
    IF dbg /\ ~CanDrawPathArgs_validate(a)
    THEN Answer("CanDrawPathArgs::validate", FALSE)
    ELSE Answer("", onCanDrawPath(r, a))

\* What one call did: the assertion that halted it ("" when none did), whether
\* the subclass's onDrawPath was reached and with which arguments, what the
\* call returned, and the stencil buffer it left
Outcome(halt, reached, result, drawArgs, st) ==
    [halt |-> halt, reached |-> reached, result |-> result,
     drawArgs |-> drawArgs, stencil |-> st]

\* The stencil buffer with the reference value written to the given pixels
WriteStencil(st, pixels, ref) ==
    [x \in Pixels |-> IF x \in pixels THEN ref ELSE st[x]]

\* The capability request a draw request reduces to
RequestOf(a) ==
    CanDrawPathArgs(Ptr(Deref(a.fResourceProvider).shaderCaps),
                    a.fViewMatrix,
                    a.fPath,
                    a.fStyle,
                    a.fAntiAlias,
                    ~isUnused(Deref(a.fUserStencilSettings)),
                    Deref(a.fDrawContext).isStencilBufferMultisampled)

\* virtual onDrawPath of the subclass.  It completes a request its
\* onCanDrawPath accepts unless the subclass is one that does not complete;
\* a completed draw applies the user stencil rule, which a subclass of
\* kNoRestriction support respects, to the covered pixels inside the clip.
\* A null clip is dereferenced.
onDrawPath(r, a, st) ==
    LET uss == Deref(a.fUserStencilSettings)
        ok == onCanDrawPath(r, RequestOf(a)) /\ r.completes
        stencils == /\ ok
                    /\ ~isUnused(uss)
                    /\ onGetStencilSupport(r, Deref(a.fPath)) = kNoRestriction_StencilSupport
        covered == Footprint(Deref(a.fPath), Deref(a.fViewMatrix)) \cap Deref(a.fClip)
    IN IF a.fClip = NULL
       THEN Outcome("null dereference", TRUE, FALSE, Ptr(a), st)
       ELSE Outcome("", TRUE, ok, Ptr(a),
                    IF stencils THEN WriteStencil(st, covered, uss.ref) ELSE st)

\* The canArgs drawPath's debug code fills in from its arguments
CanArgsOf(a) ==
    [fShaderCaps |-> Ptr(Deref(a.fResourceProvider).shaderCaps),
     fViewMatrix |-> a.fViewMatrix,
     fPath |-> a.fPath,
     fStyle |-> a.fStyle,
     fAntiAlias |-> a.fAntiAlias,
     fHasUserStencilSettings |-> ~isUnused(Deref(a.fUserStencilSettings)),
     fIsStencilBufferMSAA |-> Deref(a.fDrawContext).isStencilBufferMultisampled]

\* drawPath with its check that canDrawPath accepts left out
DrawPathChecks_noCanDraw(r, dbg, a) ==
    LET inUse == ~isUnused(Deref(a.fUserStencilSettings))
        sup == getStencilSupport(r, dbg, Deref(a.fPath))
    IN IF ~dbg THEN ""
       ELSE IF ~DrawPathArgs_validate(a) THEN "DrawPathArgs::validate"
       ELSE IF inUse /\ sup.halt # "" THEN sup.halt
       ELSE IF inUse /\ sup.value # kNoRestriction_StencilSupport
       THEN "drawPath: kNoRestriction_StencilSupport == getStencilSupport"
       ELSE IF inUse /\ ~isSimpleFill(Deref(a.fStyle)) THEN "drawPath: isSimpleFill()"
       ELSE ""

\* drawPath with its check of the stencil support left out
DrawPathChecks_noSupport(r, dbg, a) ==
    LET can == canDrawPath(r, dbg, CanArgsOf(a))
        inUse == ~isUnused(Deref(a.fUserStencilSettings))
    IN IF ~dbg THEN ""
       ELSE IF ~DrawPathArgs_validate(a) THEN "DrawPathArgs::validate"
       ELSE IF can.halt # "" THEN can.halt
       ELSE IF ~can.value THEN "drawPath: canDrawPath(canArgs)"
       ELSE IF inUse /\ ~isSimpleFill(Deref(a.fStyle)) THEN "drawPath: isSimpleFill()"
       ELSE ""

\* The debug code of drawPath: the assertion that fails, "" when none does.
\* It validates the arguments, asserts that canDrawPath accepts the request
\* and, when user stencil settings are in use, that the stencil support is
\* kNoRestriction and the style a simple fill.
DrawPathChecks(r, dbg, a) ==
    LET can == canDrawPath(r, dbg, CanArgsOf(a))
        inUse == ~isUnused(Deref(a.fUserStencilSettings))
        sup == getStencilSupport(r, dbg, Deref(a.fPath))
    IN IF ~dbg THEN ""
       ELSE IF ~DrawPathArgs_validate(a) THEN "DrawPathArgs::validate"
       ELSE IF can.halt # "" THEN can.halt
       ELSE IF ~can.value THEN "drawPath: canDrawPath(canArgs)"
       ELSE IF inUse /\ sup.halt # "" THEN sup.halt
       ELSE IF inUse /\ sup.value # kNoRestriction_StencilSupport
       THEN "drawPath: kNoRestriction_StencilSupport == getStencilSupport"
       ELSE IF inUse /\ ~isSimpleFill(Deref(a.fStyle)) THEN "drawPath: isSimpleFill()"
       ELSE ""

\* drawPath calling the subclass inside the debug code only
drawPath_debugOnly(r, dbg, a, st) ==
    IF DrawPathChecks(r, dbg, a) # ""
    THEN Outcome(DrawPathChecks(r, dbg, a), FALSE, FALSE, Ptr(a), st)
    ELSE IF dbg THEN onDrawPath(r, a, st)
    ELSE Outcome("", FALSE, FALSE, Ptr(a), st)

\* drawPath: after the debug code the subclass draws and its answer is returned
drawPath(r, dbg, a, st) ==
    IF DrawPathChecks(r, dbg, a) # ""
    THEN Outcome(DrawPathChecks(r, dbg, a), FALSE, FALSE, Ptr(a), st)
    ELSE onDrawPath(r, a, st)

\* DrawPathArgs drawArgs; declared without an initializer: each pointer holds
\* whatever was in its storage
UninitializedDrawPathArgs(garbage) ==
    DrawPathArgs(garbage, garbage, garbage, garbage, garbage, GrColor_BLACK, garbage,
                 garbage, garbage, FALSE, FALSE)

\* The draw request the default onStencilPath builds: the assignments of its
\* body, in order, to the uninitialized drawArgs.  None assigns fClip.
SynthesizedDrawArgs(a, garbage) ==
    [UninitializedDrawPathArgs(garbage) EXCEPT
        !.fResourceProvider = a.fResourceProvider,
        !.fPaint = Ptr(GrPaint),
        !.fUserStencilSettings = Ptr(kIncrementStencil),
        !.fDrawContext = a.fDrawContext,
        !.fColor = GrColor_WHITE,
        !.fViewMatrix = a.fViewMatrix,
        !.fPath = a.fPath,
        !.fStyle = Ptr(SimpleFill),
        !.fAntiAlias = FALSE,
        !.fGammaCorrect = FALSE]

\* An override of onStencilPath (a subclass of kStencilOnly support has one):
\* non-zero stencil on the covered pixels inside the clip, nothing elsewhere
onStencilPathOverride(r, a, st) ==
    Outcome("", FALSE, TRUE, NULL,
            WriteStencil(st,
                         Footprint(Deref(a.fPath), Deref(a.fViewMatrix)) \cap Deref(a.fClip),
                         StencilRef))

\* onStencilPath: the subclass's override, or the default, which draws the
\* path with kIncrementStencil through drawPath and drops drawPath's answer
onStencilPath(r, dbg, a, garbage, st) ==
    IF r.overridesStencil
    THEN onStencilPathOverride(r, a, st)
    ELSE drawPath(r, dbg, SynthesizedDrawArgs(a, garbage), st)

\* stencilPath: the debug build validates the arguments and asserts that the
\* stencil support is not kNoSupport
stencilPath(r, dbg, a, garbage, st) ==
    LET sup == getStencilSupport(r, dbg, Deref(a.fPath))
    IN IF ~dbg THEN onStencilPath(r, dbg, a, garbage, st)
       ELSE IF ~StencilPathArgs_validate(a)
       THEN Outcome("StencilPathArgs::validate", FALSE, FALSE, NULL, st)
       ELSE IF sup.halt # "" THEN Outcome(sup.halt, FALSE, FALSE, NULL, st)
       ELSE IF sup.value = kNoSupport_StencilSupport
       THEN Outcome("stencilPath: kNoSupport_StencilSupport != getStencilSupport",
                    FALSE, FALSE, NULL, st)
       ELSE onStencilPath(r, dbg, a, garbage, st)

\* ----------------------------------------------------------------- helpers
\* SkDrawTreatAAStrokeAsHairline: false under perspective; otherwise the
\* lengths of the mapped vectors (width, 0) and (0, width) must both be at
\* most one pixel, and the coverage, written when asked for, is their average
SkDrawTreatAAStrokeAsHairline(strokeWidth, matrix, outCoverage) ==
    LET len0 == Abs(matrix.sx * strokeWidth)
        len1 == Abs(matrix.sy * strokeWidth)
    IN IF matrix.persp THEN Answer("", [value |-> FALSE, outCoverage |-> outCoverage])
       ELSE IF len0 <= Scalar1 /\ len1 <= Scalar1
       THEN Answer("", [value |-> TRUE,
                        outCoverage |-> IF outCoverage # NULL
                                        THEN Ptr((len0 + len1) \div 2)
                                        ELSE outCoverage])
       ELSE Answer("", [value |-> FALSE, outCoverage |-> outCoverage])

\* SkStrokeRec::isHairlineStyle
isHairlineStyle(stroke) == stroke.strokeStyle = kHairline_Style

\* IsStrokeHairlineOrEquivalent testing the hairline style before the path effect
IsStrokeHairlineOrEquivalent_styleFirst(style, matrix, outCoverage) ==
    IF isHairlineStyle(style)
    THEN [value |-> TRUE,
          outCoverage |-> IF outCoverage # NULL THEN Ptr(Scalar1) ELSE outCoverage]
    ELSE IF style.pathEffect
    THEN [value |-> FALSE, outCoverage |-> outCoverage]
    ELSE IF style.strokeStyle = kStroke_Style
    THEN SkDrawTreatAAStrokeAsHairline(style.width, matrix, outCoverage).value
    ELSE [value |-> FALSE, outCoverage |-> outCoverage]

\* IsStrokeHairlineOrEquivalent: outCoverage is nullptr or points to a scalar;
\* the answer carries the returned bool and what outCoverage points to after
IsStrokeHairlineOrEquivalent(style, matrix, outCoverage) ==
    IF style.pathEffect
    THEN [value |-> FALSE, outCoverage |-> outCoverage]
    ELSE IF isHairlineStyle(style)
    THEN [value |-> TRUE,
          outCoverage |-> IF outCoverage # NULL THEN Ptr(Scalar1) ELSE outCoverage]
    ELSE IF style.strokeStyle = kStroke_Style
    THEN SkDrawTreatAAStrokeAsHairline(style.width, matrix, outCoverage).value
    ELSE [value |-> FALSE, outCoverage |-> outCoverage]

\* GetPathDevBounds mapping the device rectangle of an inverse filled path
GetPathDevBounds_mapped(path, devW, devH, matrix) ==
    IF path.inverse
    THEN mapRect(matrix, Rect(0, 0, devW, devH))
    ELSE mapRect(matrix, path.bounds)

\* GetPathDevBounds: the device rectangle for an inverse filled path, else the
\* mapped bounds of the path
GetPathDevBounds(path, devW, devH, matrix) ==
    IF path.inverse
    THEN Rect(0, 0, devW, devH)
    ELSE mapRect(matrix, path.bounds)

\* The selector over the chain of registered path renderers: the index of the
\* first, from index i on, whose canDrawPath accepts, or 0 when none does
RECURSIVE getPathRendererFrom(_, _, _, _)
getPathRendererFrom(rs, dbg, a, i) ==
    IF i > Len(rs) THEN Answer("", 0)
    ELSE LET can == canDrawPath(rs[i], dbg, a)
         IN IF can.halt # "" THEN Answer(can.halt, 0)
            ELSE IF can.value THEN Answer("", i)
            ELSE getPathRendererFrom(rs, dbg, a, i + 1)

getPathRenderer(rs, dbg, a) == getPathRendererFrom(rs, dbg, a, 1)

\* ------------------------------------------------------------------ inputs
AAModes == { {FALSE}, {TRUE}, {FALSE, TRUE} }
StencilUses == { {FALSE}, {FALSE, TRUE} }

\* The path renderers a chain selects among
ChainRenderers ==
    { PathRenderer(aa, su, sup, sup = kStencilOnly_StencilSupport, TRUE) :
        aa \in AAModes, su \in StencilUses, sup \in StencilSupport }

\* The path renderers drawn and stencilled with
PathRenderers ==
    { PathRenderer(aa, su, sup, ov, c) :
        aa \in { {FALSE}, {FALSE, TRUE} }, su \in StencilUses,
        sup \in StencilSupport, ov \in BOOLEAN, c \in BOOLEAN }

Chains == UNION { [1 .. n -> ChainRenderers] : n \in 0 .. MaxChain }

Coords == 0 .. MaxCoord
EmptyPath == Path(Rect(0, 0, 0, 0), FALSE, TRUE)

\* Paths on the scanline: one pixel row high
RowPaths ==
    { Path(Rect(lr[1], 0, lr[2], 1), FALSE, FALSE) :
        lr \in { c \in Coords \X Coords : c[1] < c[2] } }
    \cup { Path(Rect(0, 0, 1, 1), TRUE, FALSE), EmptyPath }

Translations == { Matrix(1, 1, tx, 0, FALSE) : tx \in {0, 1} }

Styles ==
    { Style(pe, kHairline_Style, 0) : pe \in BOOLEAN }
    \cup { Style(pe, kFill_Style, -Scalar1) : pe \in BOOLEAN }
    \cup { Style(pe, st, w) :
             pe \in BOOLEAN, st \in {kStroke_Style, kStrokeAndFill_Style},
             w \in {Scalar1 \div 4, Scalar1 \div 2, Scalar1, 2 * Scalar1} }

DrawStyles == { SimpleFill, Style(FALSE, kStroke_Style, Scalar1) }

TheResourceProvider == Ptr(ResourceProvider("caps"))
DrawContexts == { Ptr(DrawContext(msaa)) : msaa \in BOOLEAN }
ClipPtrs == { Ptr(c) : c \in Clips }

\* What an uninitialized GrClip pointer can hold
GarbagePtrs == ClipPtrs \cup { NULL }

\* ------------------------------------------------------------------- state
VARIABLES
    debug,      \* SK_DEBUG: whether SkASSERT and SkDEBUGCODE are compiled in
    pr,         \* the path renderer the calls are made on
    chain,      \* the registered path renderers, in registration order
    stencil,    \* the scanline of the stencil buffer
    op,         \* the last call
    args,       \* its arguments
    ret         \* what it did and returned

vars == << debug, pr, chain, stencil, op, args, ret >>

DefaultRenderer ==
    PathRenderer({FALSE, TRUE}, {FALSE, TRUE}, kNoRestriction_StencilSupport, FALSE, TRUE)

NoCall == Outcome("", FALSE, FALSE, NULL, ZeroStencil)

\* No call is in progress and no assertion has halted the program
Idle == op = "idle" /\ ret.halt = ""

Init ==
    /\ debug \in BOOLEAN
    /\ pr \in PathRenderers
    /\ chain = << >>
    /\ stencil = ZeroStencil
    /\ op = "idle"
    /\ args = NULL
    /\ ret = NoCall

\* A call that was not halted returns; its request bundle is discarded
Return ==
    /\ op # "idle"
    /\ ret.halt = ""
    /\ op' = "idle"
    /\ args' = NULL
    /\ ret' = NoCall
    /\ UNCHANGED << debug, pr, chain, stencil >>

\* The caller clears the stencil buffer
ClearStencil ==
    /\ Idle
    /\ stencil # ZeroStencil
    /\ stencil' = ZeroStencil
    /\ UNCHANGED << debug, pr, chain, op, args, ret >>

\* A call of drawPath
DrawPath ==
    /\ Idle
    /\ \E uss \in {kUnused, kIncrementStencil}, dc \in DrawContexts, clip \in ClipPtrs,
          m \in Translations, path \in RowPaths, style \in DrawStyles, aa \in BOOLEAN :
          LET a == DrawPathArgs(TheResourceProvider, Ptr(GrPaint), Ptr(uss), dc, clip,
                                GrColor_WHITE, Ptr(m), Ptr(path), Ptr(style), aa, FALSE)
              out == drawPath(pr, debug, a, stencil)
          IN /\ op' = "drawPath"
             /\ args' = a
             /\ ret' = [out EXCEPT !.stencil = ZeroStencil]
             /\ stencil' = out.stencil
    /\ UNCHANGED << debug, pr, chain >>

\* A call of stencilPath
StencilPath ==
    /\ Idle
    /\ \E dc \in DrawContexts, clip \in ClipPtrs, m \in Translations, path \in RowPaths,
          aa \in BOOLEAN, garbage \in GarbagePtrs :
          LET a == StencilPathArgs(TheResourceProvider, dc, clip, Ptr(m), Ptr(path), aa)
              out == stencilPath(pr, debug, a, garbage, stencil)
          IN /\ op' = "stencilPath"
             /\ args' = a
             /\ ret' = [out EXCEPT !.stencil = ZeroStencil]
             /\ stencil' = out.stencil
    /\ UNCHANGED << debug, pr, chain >>

Next == DrawPath \/ StencilPath \/ ClearStencil \/ Return

Spec == Init /\ [][Next]_vars

\* The path renderers that honour the contract of the capability query: their
\* onDrawPath completes every draw their onCanDrawPath accepted
InitContract == Init /\ pr.completes

SpecContract == InitContract /\ [][Next]_vars

\* ------------------------------------------------------------ the selector
ChainPaths ==
    { Path(Rect(0, 0, 1, 1), FALSE, FALSE), Path(Rect(0, 0, 1, 1), TRUE, FALSE), EmptyPath }

InitChain ==
    /\ debug \in BOOLEAN
    /\ pr = DefaultRenderer
    /\ chain \in Chains
    /\ stencil = ZeroStencil
    /\ op = "idle"
    /\ args = NULL
    /\ ret = NoCall

\* The caller asks the selector for a path renderer for a request
GetPathRenderer ==
    /\ Idle
    /\ \E m \in Translations, path \in ChainPaths, style \in DrawStyles,
          aa \in BOOLEAN, hasUSS \in BOOLEAN, msaa \in BOOLEAN :
          LET a == CanDrawPathArgs(Ptr("caps"), Ptr(m), Ptr(path), Ptr(style),
                                   aa, hasUSS, msaa)
              got == getPathRenderer(chain, debug, a)
          IN /\ op' = "getPathRenderer"
             /\ args' = a
             /\ ret' = Outcome(got.halt, FALSE, got.value, NULL, ZeroStencil)
    /\ UNCHANGED << debug, pr, chain, stencil >>

NextChain == GetPathRenderer \/ Return

SpecChain == InitChain /\ [][NextChain]_vars

\* ------------------------------------------------------ the static helpers
HairlineMatrices ==
    { Matrix(sx, sy, 0, 0, persp) : sx \in {-1, 1, 2}, sy \in {-1, 1, 2}, persp \in BOOLEAN }

\* nullptr, or a scalar of the caller's holding 0
OutCoverages == { NULL, Ptr(0) }

BoundsPaths ==
    { Path(Rect(h[1], v[1], h[2], v[2]), inv, FALSE) :
        h \in { c \in Coords \X Coords : c[1] < c[2] },
        v \in { c \in Coords \X Coords : c[1] < c[2] },
        inv \in BOOLEAN }

BoundsMatrices ==
    { Matrix(sx, sy, tx, ty, FALSE) :
        sx \in {-1, 1, 2}, sy \in {-1, 1, 2}, tx \in {-1, 0, 1}, ty \in {-1, 0, 1} }

InitUtil ==
    /\ debug \in BOOLEAN
    /\ pr = DefaultRenderer
    /\ chain = << >>
    /\ stencil = ZeroStencil
    /\ op = "idle"
    /\ args = NULL
    /\ ret = NoCall

\* A call of IsStrokeHairlineOrEquivalent
CallIsStrokeHairlineOrEquivalent ==
    /\ Idle
    /\ \E style \in Styles, matrix \in HairlineMatrices, outCoverage \in OutCoverages :
          /\ op' = "IsStrokeHairlineOrEquivalent"
          /\ args' = [style |-> style, matrix |-> matrix, outCoverage |-> outCoverage]
          /\ ret' = Outcome("", FALSE,
                            IsStrokeHairlineOrEquivalent(style, matrix, outCoverage),
                            NULL, ZeroStencil)
    /\ UNCHANGED << debug, pr, chain, stencil >>

\* A call of GetPathDevBounds
CallGetPathDevBounds ==
    /\ Idle
    /\ \E path \in BoundsPaths, devW \in 0 .. MaxDev, devH \in 0 .. MaxDev,
          matrix \in BoundsMatrices :
          /\ op' = "GetPathDevBounds"
          /\ args' = [path |-> path, devW |-> devW, devH |-> devH, matrix |-> matrix]
          /\ ret' = Outcome("", FALSE, GetPathDevBounds(path, devW, devH, matrix),
                            NULL, ZeroStencil)
    /\ UNCHANGED << debug, pr, chain, stencil >>

NextUtil == CallIsStrokeHairlineOrEquivalent \/ CallGetPathDevBounds \/ Return

SpecUtil == InitUtil /\ [][NextUtil]_vars

\* ------------------------------------------------------------------ claims
\* The last call went through drawPath, with the arguments LastDrawArgs
DrawPathInvoked == op \in {"drawPath", "stencilPath"} /\ ret.drawArgs # NULL
LastDrawArgs == Deref(ret.drawArgs)

\* The subclass's onCanDrawPath accepts the request the last drawPath was for
LastRequestAccepted == onCanDrawPath(pr, RequestOf(LastDrawArgs))

Accepts(i) == onCanDrawPath(chain[i], args)

StencilRequest(a) == ~Deref(a.fPath).empty /\ ~Deref(a.fPath).inverse

\* The path renderer is one stencilPath is meant for: it completes its draws,
\* and it overrides onStencilPath or reports kNoRestriction and accepts the
\* draw request the default builds
FitForStencilPath(a) ==
    /\ pr.completes
    /\ \/ pr.overridesStencil
       \/ /\ pr.support = kNoRestriction_StencilSupport
          /\ onCanDrawPath(pr, RequestOf(SynthesizedDrawArgs(a, a.fClip)))

\* C4: from a zero stencil buffer, stencilPath for a path that is neither
\* empty nor inverse, on a path renderer whose support is not kNoSupport,
\* leaves every pixel inside the path non-zero and every pixel outside it zero.
\* Stated for a clip that lets every pixel through and a fit path renderer.
StencilIsolation ==
    [][ ( /\ Idle
          /\ stencil = ZeroStencil
          /\ op' = "stencilPath"
          /\ StencilRequest(args')
          /\ pr.support # kNoSupport_StencilSupport
          /\ FitForStencilPath(args')
          /\ Deref(args'.fClip) = Pixels ) =>
        \A x \in Pixels :
            IF x \in Footprint(Deref(args'.fPath), Deref(args'.fViewMatrix))
            THEN stencil'[x] # 0
            ELSE stencil'[x] = 0 ]_vars

\* The direct drawPath call the default onStencilPath is said to equal: same
\* target, clip, view matrix and path, the always-pass/replace rule, a simple
\* fill, opaque white, no anti-aliasing, no gamma correction
DirectDrawArgs(a) ==
    DrawPathArgs(a.fResourceProvider, Ptr(GrPaint), Ptr(kIncrementStencil),
                 a.fDrawContext, a.fClip, GrColor_WHITE, a.fViewMatrix, a.fPath,
                 Ptr(SimpleFill), FALSE, FALSE)

\* C5: on a path renderer of kNoRestriction support that does not override
\* onStencilPath, stencilPath leaves the stencil buffer exactly as that direct
\* drawPath call leaves it, through one drawPath call
DefaultStencilEquivalence ==
    [][ ( /\ Idle
          /\ op' = "stencilPath"
          /\ StencilRequest(args')
          /\ ~pr.overridesStencil
          /\ pr.support = kNoRestriction_StencilSupport ) =>
        /\ ret'.drawArgs # NULL
        /\ stencil' = drawPath(pr, debug, DirectDrawArgs(args'), stencil).stencil ]_vars
\* The least and the greatest number of a non-empty finite set
SetMin(S) == CHOOSE x \in S : \A y \in S : x <= y
SetMax(S) == CHOOSE x \in S : \A y \in S : y <= x

\* The bounding box of the four mapped corners of a rectangle
BoxOfMappedCorners(m, rc) ==
    LET xs == { m.sx * x + m.tx : x \in {rc.l, rc.r} }
        ys == { m.sy * y + m.ty : y \in {rc.t, rc.b} }
    IN Rect(SetMin(xs), SetMin(ys), SetMax(xs), SetMax(ys))

\* C6: for an inverse filled path GetPathDevBounds returns the rectangle
\* (0, 0, W, H) whatever the path and the matrix; for another path the
\* bounding box of the transformed bounds, not clamped to the device
InverseFillBounds ==
    op = "GetPathDevBounds" =>
        IF args.path.inverse
        THEN ret.result = [l |-> 0, t |-> 0, r |-> args.devW, b |-> args.devH]
        ELSE ret.result = BoxOfMappedCorners(args.matrix, args.path.bounds)

InverseFillBoundsWitness ==
    /\ op = "GetPathDevBounds"
    /\ args.path.inverse
    /\ args.matrix.sx = -1
    /\ args.path.bounds.r > args.devW
    /\ args.devW # args.devH

\* C7: with a path effect the answer is false and the coverage is left as it
\* was; without one and with a hairline stroke it is true with coverage 1.0;
\* otherwise it is true only for a plain stroke that the width test accepts
HairlineDecisionOrder ==
    op = "IsStrokeHairlineOrEquivalent" =>
        LET style == args.style
            test == SkDrawTreatAAStrokeAsHairline(style.width, args.matrix,
                                                  args.outCoverage).value
        IN /\ style.pathEffect =>
                /\ ret.result.value = FALSE
                /\ ret.result.outCoverage = args.outCoverage
           /\ (~style.pathEffect /\ style.strokeStyle = kHairline_Style) =>
                /\ ret.result.value = TRUE
                /\ args.outCoverage # NULL => ret.result.outCoverage = Ptr(Scalar1)
           /\ (~style.pathEffect /\ style.strokeStyle # kHairline_Style) =>
                ret.result.value = (style.strokeStyle = kStroke_Style /\ test.value)

HairlineDecisionOrderWitness ==
    /\ op = "IsStrokeHairlineOrEquivalent"
    /\ args.style.pathEffect
    /\ args.style.strokeStyle = kHairline_Style
    /\ args.outCoverage # NULL
    /\ ret.result.value = FALSE

\* What the subclass's onDrawPath answered in the last drawPath
OnDrawPathAnswer == onDrawPath(pr, LastDrawArgs, ZeroStencil).result

StencilOnlyByDefault ==
    /\ op = "stencilPath"
    /\ StencilRequest(args)
    /\ pr.support = kStencilOnly_StencilSupport
    /\ ~pr.overridesStencil

\* C9 as claimed: in that case no assertion fails before onDrawPath is
\* reached, in a debug build as in an optimized one.  Stated for a draw request
\* whose clip is not null and that the path renderer accepts.
StencilOnlyUnchecked ==
    ( /\ StencilOnlyByDefault
      /\ LastDrawArgs.fClip # NULL
      /\ LastRequestAccepted ) => ret.reached

\* C9 as amended: in that case the precondition of stencilPath passes; an
\* optimized build reaches onDrawPath, and a debug build never does: an
\* assertion of drawPath halts it
StencilOnlyCaughtInDebug ==
    StencilOnlyByDefault =>
        /\ ret.halt \notin { "StencilPathArgs::validate",
                             "stencilPath: kNoSupport_StencilSupport != getStencilSupport",
                             "getStencilSupport: !path.isInverseFillType()" }
        /\ DrawPathInvoked
        /\ ~debug => ret.reached
        /\ debug => (~ret.reached /\ ret.halt # "")

StencilOnlyCaughtInDebugWitness ==
    /\ StencilOnlyByDefault
    /\ debug
    /\ ret.halt = "drawPath: kNoRestriction_StencilSupport == getStencilSupport"

\* C10: the draw request the default onStencilPath builds from a valid stencil
\* request passes DrawPathArgs::validate, and its clip is the clip of the
\* stencil request
SynthesizedArgsValid ==
    ( /\ op = "stencilPath"
      /\ StencilPathArgs_validate(args)
      /\ DrawPathInvoked ) =>
        /\ DrawPathArgs_validate(LastDrawArgs)
        /\ LastDrawArgs.fClip = args.fClip

====
